---------------------------- MODULE Spec2Model ----------------------------
(***************************************************************************)
(* State-machine model of the Telegram RAG bot:                            *)
(*   - chunk_text / load_documents            (src/rag/embedder.py)        *)
(*   - Retriever.index_documents/search/...   (src/rag/retriever.py)       *)
(*   - the command handlers                   (src/bot.py)                 *)
(* Three specifications share the module:                                  *)
(*   SpecChunk      chunk_text run step by step on bounded inputs          *)
(*   SpecRetriever  a caller driving the Retriever's public methods        *)
(*   Spec           the bot: main(), then handlers interleaved at awaits   *)
(***************************************************************************)
EXTENDS Integers, Sequences, FiniteSets, TLC

(***************************************************************************)
(* Bounds of the model.                                                    *)
(***************************************************************************)
MaxTextLen == 6
MaxChunkSize == 5
MaxIter == 3

Max(S) == CHOOSE x \in S : \A y \in S : y <= x
Min2(a, b) == IF a < b THEN a ELSE b
Max2(a, b) == IF a < b THEN b ELSE a

(***************************************************************************)
(* Python string primitives.  A text is a sequence of one-character        *)
(* strings; offsets are 0-based as in Python.                              *)
(***************************************************************************)
Chars == {"a", " ", ".", "\n"}
Whitespace == {" ", "\n"}

\* Python's normalisation of a slice bound i for a string of length n.
SliceIndex(i, n) == IF i < 0 THEN Max2(i + n, 0) ELSE Min2(i, n)

\* text[i:j]
Slice(s, i, j) ==
    LET a == SliceIndex(i, Len(s))
        b == SliceIndex(j, Len(s))
    IN  IF a >= b THEN << >> ELSE SubSeq(s, a + 1, b)

\* text.strip()
Strip(s) ==
    LET keep == {k \in 1..Len(s) : s[k] \notin Whitespace}
    IN  IF keep = {} THEN << >>
        ELSE SubSeq(s, CHOOSE k \in keep : \A m \in keep : k <= m, Max(keep))

\* text.rfind(sub, i, j): highest 0-based offset of sub inside text[i:j], or -1.
RFind(s, sub, i, j) ==
    LET a == SliceIndex(i, Len(s))
        b == SliceIndex(j, Len(s))
        hits == {k \in a..(b - Len(sub)) : SubSeq(s, k + 1, k + Len(sub)) = sub}
    IN  IF hits = {} THEN -1 ELSE Max(hits)

(***************************************************************************)
(* chunk_text, src/rag/embedder.py:52-91.                                  *)
(***************************************************************************)
\* Lines 71-83: the end of the window that begins at `st`.
WindowEndSentenceFirst(txt, size, st) ==
    LET end0 == st + size
        para_break == RFind(txt, <<"\n", "\n">>, st, end0)
        sent_break == RFind(txt, <<".", " ">>, st, end0)
    IN  IF end0 < Len(txt)
        THEN IF sent_break > st + (size \div 2)
             THEN sent_break + 1
             ELSE IF para_break > st + (size \div 2)
                  THEN para_break
                  ELSE end0
        ELSE end0
WindowEnd(txt, size, st) ==
    LET end0 == st + size
        para_break == RFind(txt, <<"\n", "\n">>, st, end0)
        sent_break == RFind(txt, <<".", " ">>, st, end0)
    IN  IF end0 < Len(txt)
        THEN IF para_break > st + (size \div 2)
             THEN para_break
             ELSE IF sent_break > st + (size \div 2)
                  THEN sent_break + 1
                  ELSE end0
        ELSE end0

\* Lines 85-87: the chunk list after the window [st, en) has been cut.
EmitUnstripped(cs, txt, st, en) ==
    IF Slice(txt, st, en) # << >> THEN Append(cs, Slice(txt, st, en)) ELSE cs
EmitChunk(cs, txt, st, en) ==
    LET chunk == Strip(Slice(txt, st, en))
    IN  IF chunk # << >> THEN Append(cs, chunk) ELSE cs

\* Line 89: where the next window begins.
NextStartSkipsOverlap(txt, ov, en) == en
NextStart(txt, ov, en) == IF en < Len(txt) THEN en - ov ELSE en

\* Lines 64-65: the early return for a text that fits one chunk.
FitsOneChunk(txt, size) == Len(txt) <= size

ShortResult(txt) == IF Strip(txt) # << >> THEN <<Strip(txt)>> ELSE << >>

\* Lines 70-91: the loop, run to its end from `st` with chunks `cs`.
RECURSIVE ChunkLoop(_, _, _, _, _)
ChunkLoop(txt, size, ov, st, cs) ==
    IF ~(st < Len(txt)) THEN cs
    ELSE LET en == WindowEnd(txt, size, st)
         IN  ChunkLoop(txt, size, ov, NextStart(txt, ov, en),
                       EmitChunk(cs, txt, st, en))

\* chunk_text(text, chunk_size, overlap) as a function of its arguments.
ChunkText(txt, size, ov) ==
    IF FitsOneChunk(txt, size) THEN ShortResult(txt)
    ELSE ChunkLoop(txt, size, ov, 0, << >>)

(***************************************************************************)
(* load_documents, src/rag/embedder.py:94-124.                             *)
(* load_documents calls chunk_text with its defaults (500, 50); the model  *)
(* scales the two defaults down to LoadChunkSize and LoadOverlap so that   *)
(* short documents still split into several chunks.                        *)
(***************************************************************************)
LoadChunkSize == 4
LoadOverlap == 1

\* The *.md files a data directory may hold, in the order glob lists them.
Stems == <<"a", "b">>
StemSet == {Stems[i] : i \in 1..Len(Stems)}

\* Contents a file may have: one chunk, two chunks.
DocTexts ==
    { <<"a", "a">>,
      <<"a", "a", ".", " ", "a", "a">> }

\* A data directory: missing, or a set of files with their contents.
DirStates ==
    {[exists |-> FALSE, files |-> << >>]}
        \cup {[exists |-> TRUE, files |-> f] :
                 f \in UNION {[S -> DocTexts] : S \in SUBSET StemSet}}

\* Line 121: f"{file_path.stem}_{i}"
ChunkIdOneBased(stem, i) == stem \o "_" \o ToString(i + 1)
ChunkId(stem, i) == stem \o "_" \o ToString(i)

\* Line 120: file_path.name
FileName(stem) == stem \o ".md"

\* Lines 115-122: the documents of one file.
FileDocuments(stem, content) ==
    LET cs == ChunkText(content, LoadChunkSize, LoadOverlap)
    IN  [i \in 1..Len(cs) |->
            [content |-> cs[i], source |-> FileName(stem),
             chunk_id |-> ChunkId(stem, i - 1)]]

\* Lines 110-124: the documents of the files Stems[n..], in glob order.
RECURSIVE LoadFrom(_, _)
LoadFrom(dir, n) ==
    IF n > Len(Stems) THEN << >>
    ELSE (IF Stems[n] \in DOMAIN dir.files
          THEN FileDocuments(Stems[n], dir.files[Stems[n]])
          ELSE << >>) \o LoadFrom(dir, n + 1)

\* load_documents(data_dir) for a directory that exists (line 107 is the
\* caller's guard here, see IndexDocumentsCall).
LoadDocuments(dir) == LoadFrom(dir, 1)

(***************************************************************************)
(* Embedder, src/rag/embedder.py:25-49.  The sentence-transformer model is *)
(* a fixed deterministic map from texts to unit vectors.                   *)
(***************************************************************************)
Directions == << <<1, 0>>, <<0, 1>>, <<-1, 0>>, <<0, -1>> >>

Embed(t) == Directions[(Len(t) % Len(Directions)) + 1]

EmbedBatch(ts) == [i \in 1..Len(ts) |-> Embed(ts[i])]

(***************************************************************************)
(* The ChromaDB collection as the Retriever uses it: a list of entries in  *)
(* insertion order, cosine space (src/rag/retriever.py:39-42).             *)
(***************************************************************************)
\* collection.count()
Count(coll) == Len(coll)

\* collection.get()["ids"]
GetIds(coll) == {coll[i].id : i \in 1..Len(coll)}

\* collection.delete(ids=...)
Delete(coll, ids) == SelectSeq(coll, LAMBDA e : e.id \notin ids)

\* collection.add(ids, embeddings, documents, metadatas); an id the
\* collection already holds is not added again.
Add(coll, ids, embeddings, documents, metadatas) ==
    coll \o SelectSeq(
        [i \in 1..Len(ids) |->
            [id |-> ids[i], embedding |-> embeddings[i],
             document |-> documents[i], metadata |-> metadatas[i]]],
        LAMBDA e : e.id \notin GetIds(coll))

\* Cosine distance of two unit vectors: 1 - u.v, between 0 and 2.
Distance(u, v) == 1 - (u[1] * v[1] + u[2] * v[2])

\* The entries with their distance to v, nearest first; entries at the same
\* distance keep their insertion order.
RECURSIVE Nearest(_, _, _)
Nearest(coll, v, i) ==
    IF i = 0 THEN << >>
    ELSE LET sorted == Nearest(coll, v, i - 1)
             hit == [document |-> coll[i].document,
                     metadata |-> coll[i].metadata,
                     distance |-> Distance(v, coll[i].embedding)]
             k == Cardinality({j \in 1..Len(sorted) :
                                 sorted[j].distance <= hit.distance})
         IN  SubSeq(sorted, 1, k) \o <<hit>> \o SubSeq(sorted, k + 1, Len(sorted))

\* collection.query(query_embeddings=[v], n_results=n): the n nearest
\* entries by ascending distance, fewer when the collection holds fewer.
QueryInsertionOrder(coll, v, n) ==
    [i \in 1..Min2(n, Len(coll)) |->
        [document |-> coll[i].document, metadata |-> coll[i].metadata,
         distance |-> Distance(v, coll[i].embedding)]]
Query(coll, v, n) ==
    LET sorted == Nearest(coll, v, Len(coll))
    IN  SubSeq(sorted, 1, Min2(n, Len(sorted)))

(***************************************************************************)
(* Retriever, src/rag/retriever.py.                                        *)
(***************************************************************************)
\* get_document_count, lines 146-148.
get_document_count(coll) == Count(coll)

\* Line 62: the short-circuit of index_documents.
AlwaysReindex(coll, force_reindex) == FALSE
AlreadyIndexed(coll, force_reindex) == Count(coll) > 0 /\ ~force_reindex

\* Lines 66-71: the collection after the optional clearing.
KeepExisting(coll, force_reindex) == coll
ClearExisting(coll, force_reindex) ==
    IF force_reindex /\ Count(coll) > 0
    THEN Delete(coll, GetIds(coll))
    ELSE coll

\* Lines 80-95: the collection after the documents have been added.
AddDocuments(coll, documents) ==
    LET ids == [i \in 1..Len(documents) |-> documents[i].chunk_id]
        contents == [i \in 1..Len(documents) |-> documents[i].content]
        metadatas ==
            [i \in 1..Len(documents) |->
                [source |-> documents[i].source,
                 chunk_id |-> documents[i].chunk_id]]
    IN  Add(coll, ids, EmbedBatch(contents), contents, metadatas)

\* index_documents(data_dir, force_reindex), lines 50-98, on collection
\* coll: the collection it leaves, what it returns or raises, and which of
\* its steps it performed.
IndexDocumentsCall(coll, dir, force_reindex) ==
    IF AlreadyIndexed(coll, force_reindex)
    THEN [collection |-> coll, raised |-> FALSE, result |-> Count(coll),
          loaded |-> FALSE, embedded |-> 0, added |-> 0]
    ELSE LET cleared == ClearExisting(coll, force_reindex)
         IN  IF ~dir.exists
             THEN \* embedder.py:107-108, FileNotFoundError
                  [collection |-> cleared, raised |-> TRUE, result |-> 0,
                   loaded |-> TRUE, embedded |-> 0, added |-> 0]
             ELSE LET documents == LoadDocuments(dir)
                  IN  IF documents = << >>
                      THEN [collection |-> cleared, raised |-> FALSE,
                            result |-> 0, loaded |-> TRUE,
                            embedded |-> 0, added |-> 0]
                      ELSE [collection |-> AddDocuments(cleared, documents),
                            raised |-> FALSE, result |-> Len(documents),
                            loaded |-> TRUE, embedded |-> Len(documents),
                            added |-> Len(documents)]

\* Lines 122-123: the cache after a miss.
CacheOnlyNewest(cache, query, query_embedding, use_cache) ==
    IF use_cache THEN [q \in {query} |-> query_embedding] ELSE cache
CacheNotStored(cache, query, query_embedding, use_cache) == cache
CacheOneEmbedding(cache, query, query_embedding, use_cache) ==
    IF use_cache
    THEN [q \in DOMAIN cache \cup {query} |-> query_embedding]
    ELSE cache
CacheAfterMiss(cache, query, query_embedding, use_cache) ==
    IF use_cache
    THEN [q \in DOMAIN cache \cup {query} |->
            IF q = query THEN query_embedding ELSE cache[q]]
    ELSE cache

\* Lines 133-142: the formatted results.
FormatResults(raw) ==
    [i \in 1..Len(raw) |->
        [content |-> raw[i].document,
         source |-> raw[i].metadata.source,
         chunk_id |-> raw[i].metadata.chunk_id,
         distance |-> raw[i].distance,
         relevance_score |-> 1 - raw[i].distance]]

\* What may go wrong inside search: nothing, the embedding model, the store.
Faults == {"none", "embed", "query"}

\* search(query, top_k, use_cache), lines 100-144, on collection coll and
\* cache `cache`: the cache it leaves, what it returns or whether it raises,
\* and the number of embedding computations it issued.
SearchCall(coll, cache, query, top_k, use_cache, fault) ==
    LET hit == use_cache /\ query \in DOMAIN cache
        query_embedding == IF hit THEN cache[query] ELSE Embed(query)
        stored == IF hit THEN cache
                  ELSE CacheAfterMiss(cache, query, query_embedding, use_cache)
    IN  IF ~hit /\ fault = "embed"
        THEN [cache |-> cache, raised |-> TRUE, results |-> << >>,
              hit |-> hit, embeds |-> 1]
        ELSE IF fault = "query"
        THEN [cache |-> stored, raised |-> TRUE, results |-> << >>,
              hit |-> hit, embeds |-> IF hit THEN 0 ELSE 1]
        ELSE [cache |-> stored, raised |-> FALSE,
              results |-> FormatResults(Query(coll, query_embedding, top_k)),
              hit |-> hit, embeds |-> IF hit THEN 0 ELSE 1]

\* clear_cache, lines 150-152.
ClearCache(cache) == << >>

VARIABLES
    \* chunk_text (SpecChunk)
    text,         \* argument
    chunk_size,   \* argument
    overlap,      \* argument
    start,        \* local
    chunks,       \* local, the returned list
    windows,      \* the [start, end) pairs cut so far (history of the loop)
    ck_pc,        \* "call" | "loop" | "done"
    \* Retriever and its surroundings
    collection,   \* self.collection: the entries, in insertion order
    query_cache,  \* self._query_cache: query |-> embedding
    data_dir,     \* the data directory on disk
    calls,        \* the last two calls made on the Retriever (history)
    ret,          \* what the last call returned and did
    before,       \* collection and cache as they were before the last call
    \* The bot (Spec)
    phase,            \* "boot" | "serving" | "crashed": where main() is
    message_history,  \* message_history: user_id |-> list of turns
    user_data,        \* context.user_data of each user
    task,             \* the handler coroutine each task slot runs
    updates,          \* number of updates dispatched so far
    sent,             \* the last message a handler sent (history)
    streak,           \* per user, the turns successful asks stored since the
                      \* last turn another handler stored (history)
    answered          \* per user, the search results of the last ask that
                      \* was answered (history)

ckvars == <<text, chunk_size, overlap, start, chunks, windows, ck_pc>>
rvars == <<collection, query_cache, data_dir, calls, ret, before>>

botvars == <<phase, message_history, user_data, task, updates, sent, streak,
             answered>>

vars == <<ckvars, rvars, botvars>>

\* chunk_text is not running.
ChunkIdle ==
    /\ text = << >> /\ chunk_size = LoadChunkSize /\ overlap = LoadOverlap
    /\ start = 0 /\ chunks = << >> /\ windows = << >> /\ ck_pc = "done"

\* No Retriever has been built.
RetrieverIdle ==
    /\ collection = << >> /\ query_cache = << >>
    /\ data_dir = [exists |-> FALSE, files |-> << >>]
    /\ calls = << >>
    /\ ret = [raised |-> FALSE, result |-> 0, results |-> << >>,
              loaded |-> FALSE, embedded |-> 0, added |-> 0, top_k |-> 0]
    /\ before = [collection |-> << >>, query_cache |-> << >>]

\* History records of the bot.
NothingSent == [user_id |-> 0, kind |-> "none"]

\* The bot is not running.
BotIdle ==
    /\ phase = "boot" /\ message_history = << >> /\ user_data = << >>
    /\ task = << >> /\ updates = 0 /\ sent = NothingSent
    /\ streak = << >> /\ answered = << >>

\* Inputs of chunk_text explored by SpecChunk.
Texts == UNION {[1..n -> Chars] : n \in 0..MaxTextLen}

ChunkSizes == {MaxChunkSize - 1, MaxChunkSize}

Overlaps == 0..MaxChunkSize

\* The scenario of the specification: 15 characters without any break.
ScenarioText ==
    <<"a", "b", "c", "d", "e", "f", "g", "h", "i", "j", "k", "l", "m", "n", "o">>

\* A window of 9 characters that holds a paragraph break after its
\* midpoint and a sentence break after the paragraph break.
BreaksText == <<"a", "a", "a", "a", "a", "\n", "\n", ".", " ", "a">>

\* A paragraph break just after the midpoint of a window of 7 characters,
\* for an overlap that is larger than the window cut there.
EarlyBreakText == <<"a", "a", "a", "a", "\n", "\n", "a", "a">>

ChunkInit ==
    /\ \/ /\ text \in Texts
          /\ chunk_size \in ChunkSizes
          /\ overlap \in Overlaps
       \/ /\ text = ScenarioText
          /\ chunk_size = 10
          /\ overlap = 3
       \/ /\ text = BreaksText
          /\ chunk_size = 9
          /\ overlap = 2
       \/ /\ text = EarlyBreakText
          /\ chunk_size = 7
          /\ overlap = 5
    /\ start = 0
    /\ chunks = << >>
    /\ windows = << >>
    /\ ck_pc = "call"
    /\ RetrieverIdle
    /\ BotIdle

\* Lines 64-68: enter chunk_text.
ChunkCall ==
    /\ ck_pc = "call"
    /\ IF FitsOneChunk(text, chunk_size)
       THEN /\ chunks' = ShortResult(text)
            /\ ck_pc' = "done"
       ELSE /\ chunks' = << >>
            /\ ck_pc' = "loop"
    /\ start' = 0
    /\ UNCHANGED <<text, chunk_size, overlap, windows>>
    /\ UNCHANGED <<rvars, botvars>>

\* Lines 70-89: one iteration of the while loop.
ChunkIterate ==
    /\ ck_pc = "loop"
    /\ start < Len(text)
    /\ Len(windows) < MaxIter
    /\ LET en == WindowEnd(text, chunk_size, start)
       IN  /\ chunks' = EmitChunk(chunks, text, start, en)
           /\ windows' = Append(windows, <<start, en>>)
           /\ start' = NextStart(text, overlap, en)
    /\ UNCHANGED <<text, chunk_size, overlap, ck_pc>>
    /\ UNCHANGED <<rvars, botvars>>

\* Lines 70, 91: the loop condition fails, return chunks.
ChunkReturn ==
    /\ ck_pc = "loop"
    /\ ~(start < Len(text))
    /\ ck_pc' = "done"
    /\ UNCHANGED <<text, chunk_size, overlap, start, chunks, windows>>
    /\ UNCHANGED <<rvars, botvars>>

ChunkNext == ChunkCall \/ ChunkIterate \/ ChunkReturn

SpecChunk == ChunkInit /\ [][ChunkNext]_vars

(***************************************************************************)
(* SpecRetriever: a caller drives one Retriever through its public         *)
(* methods while the data directory may change between calls.              *)
(***************************************************************************)
top_k_results == 2

Queries == { <<"a">>, <<"a", "a", ".">> }

\* What the history keeps of a call: which call it was, and for a search
\* whether it hit the cache and how many embeddings it computed.
CallRecord(op, query, flag, raised, hit, embeds) ==
    [op |-> op, query |-> query, flag |-> flag, raised |-> raised,
     hit |-> hit, embeds |-> embeds]

Record(c) == IF calls = << >> THEN <<c>> ELSE <<calls[Len(calls)], c>>

\* What the last call returned and did (top_k: the top_k a search was
\* called with).
NoReturn == [raised |-> FALSE, result |-> 0, results |-> << >>,
             loaded |-> FALSE, embedded |-> 0, added |-> 0, top_k |-> 0]

Snapshot == [collection |-> collection, query_cache |-> query_cache]

\* The collection a previous run may have persisted (lines 34-42).
PersistedCollections ==
    {AddDocuments(<< >>, LoadDocuments(d)) : d \in {x \in DirStates : x.exists}}

\* Retriever.__init__, lines 16-48.
RetrieverInit ==
    /\ collection \in PersistedCollections
    /\ query_cache = << >>
    /\ data_dir \in DirStates
    /\ calls = << >>
    /\ ret = NoReturn
    /\ before = [collection |-> collection, query_cache |-> << >>]
    /\ ChunkIdle
    /\ BotIdle

\* index_documents(data_dir, force_reindex), lines 50-98.
RIndexDocuments(force_reindex) ==
    \E r \in {IndexDocumentsCall(collection, data_dir, force_reindex)} :
        /\ collection' = r.collection
        /\ before' = Snapshot
        /\ calls' = Record(CallRecord("index_documents", << >>,
                                      force_reindex, r.raised, FALSE, 0))
        /\ ret' = [NoReturn EXCEPT !.raised = r.raised, !.result = r.result,
                                   !.loaded = r.loaded,
                                   !.embedded = r.embedded,
                                   !.added = r.added]
        /\ UNCHANGED <<query_cache, data_dir>>
        /\ UNCHANGED <<ckvars, botvars>>

\* search(query, top_k, use_cache), lines 100-144.
RSearch(query, top_k, use_cache, fault) ==
    \E r \in {SearchCall(collection, query_cache, query, top_k, use_cache,
                          fault)} :
        /\ query_cache' = r.cache
        /\ before' = Snapshot
        /\ calls' = Record(CallRecord("search", query, use_cache,
                                      r.raised, r.hit, r.embeds))
        /\ ret' = [NoReturn EXCEPT !.raised = r.raised,
                                   !.results = r.results, !.top_k = top_k]
        /\ UNCHANGED <<collection, data_dir>>
        /\ UNCHANGED <<ckvars, botvars>>

\* clear_cache(), lines 150-152.
RClearCache ==
    /\ query_cache' = ClearCache(query_cache)
    /\ before' = Snapshot
    /\ calls' = Record(CallRecord("clear_cache", << >>, FALSE, FALSE, FALSE, 0))
    /\ ret' = NoReturn
    /\ UNCHANGED <<collection, data_dir>>
    /\ UNCHANGED <<ckvars, botvars>>

\* The environment changes the data directory by one file operation:
\* it writes or deletes a file, or removes or creates the directory.
DirAfter(dir) ==
    IF ~dir.exists
    THEN {[exists |-> TRUE, files |-> << >>]}
    ELSE {[exists |-> FALSE, files |-> << >>]}
         \cup {[exists |-> TRUE,
                 files |-> [s \in DOMAIN dir.files \cup {stem} |->
                              IF s = stem THEN t ELSE dir.files[s]]] :
                    stem \in StemSet, t \in DocTexts}
         \cup {[exists |-> TRUE,
                 files |-> [s \in DOMAIN dir.files \ {stem} |-> dir.files[s]]] :
                    stem \in DOMAIN dir.files}

RChangeDataDir(d) ==
    /\ d # data_dir
    /\ data_dir' = d
    /\ before' = Snapshot
    /\ calls' = Record(CallRecord("change_data_dir", << >>, FALSE, FALSE, FALSE,
                                  0))
    /\ ret' = NoReturn
    /\ UNCHANGED <<collection, query_cache>>
    /\ UNCHANGED <<ckvars, botvars>>

RetrieverNext ==
    \/ \E f \in BOOLEAN : RIndexDocuments(f)
    \/ \E q \in Queries, k \in 1..top_k_results, c \in BOOLEAN,
          f \in Faults : RSearch(q, k, c, f)
    \/ RClearCache
    \/ \E d \in DirAfter(data_dir) : RChangeDataDir(d)

SpecRetriever == RetrieverInit /\ [][RetrieverNext]_vars

(***************************************************************************)
(* Spec: the bot of src/bot.py.  main() builds the Retriever and indexes   *)
(* once, then the application dispatches updates to handler coroutines.    *)
(* A handler runs without interruption from one await to the next; the     *)
(* task slots are the handler coroutines that can be in flight together.   *)
(***************************************************************************)
max_history_per_user == 2
MaxUpdates == 3

Users == {1, 2}
Tasks == {1, 2}

\* What llm_client.generate and llm_client.describe_image may return.
Answers == {"answer"}
Descriptions == {"description"}

\* Line 232: the fixed query text of an image turn (a one-element text).
ImageUploaded == <<"[Image uploaded]">>

\* The directory and the persisted collection the process may start with.
FullDir ==
    [exists |-> TRUE,
     files |-> [s \in StemSet |->
                  IF s = Stems[1] THEN <<"a", "a", ".", " ", "a", "a">>
                  ELSE <<"a", "a">>]]
OldDir == [exists |-> TRUE, files |-> [s \in {Stems[1]} |-> <<"a", "a">>]]

Worlds ==
    { [collection |-> << >>,
       data_dir |-> [exists |-> FALSE, files |-> << >>]],
      [collection |-> << >>,
       data_dir |-> [exists |-> TRUE, files |-> << >>]],
      [collection |-> << >>, data_dir |-> FullDir],
      [collection |-> AddDocuments(<< >>, LoadDocuments(OldDir)),
       data_dir |-> FullDir] }

IdleTask == [pc |-> "idle", user_id |-> 0, query |-> << >>, results |-> << >>,
             history |-> << >>, stored |-> FALSE]

\* Lines 31-36 and the state before main() runs.
Init ==
    /\ \E w \in Worlds :
          /\ collection = w.collection
          /\ data_dir = w.data_dir
          /\ before = [collection |-> w.collection, query_cache |-> << >>]
    /\ query_cache = << >>
    /\ calls = << >>
    /\ ret = NoReturn
    /\ phase = "boot"
    /\ message_history = [u \in Users |-> << >>]
    /\ user_data = [u \in Users |->
                      [last_sources |-> << >>, waiting_for_image |-> FALSE]]
    /\ task = [t \in Tasks |-> IdleTask]
    /\ updates = 0
    /\ sent = NothingSent
    /\ streak = [u \in Users |-> << >>]
    /\ answered = [u \in Users |-> << >>]
    /\ ChunkIdle

\* main() and initialize_rag(), lines 302-371: index when the collection is
\* empty, then start polling; an exception of index_documents ends main().
Main ==
    /\ phase = "boot"
    /\ IF get_document_count(collection) = 0
       THEN \E r \in {IndexDocumentsCall(collection, data_dir, FALSE)} :
               /\ collection' = r.collection
               /\ phase' = IF r.raised THEN "crashed" ELSE "serving"
       ELSE /\ collection' = collection
            /\ phase' = "serving"
    /\ UNCHANGED <<query_cache, data_dir, calls, ret, before>>
    /\ UNCHANGED <<message_history, user_data, task, updates, sent, streak>>
    /\ UNCHANGED <<ckvars, answered>>

\* The application hands an update to a handler in the first free task
\* slot.
CanDispatchAnyPhase(t) ==
    /\ task[t].pc = "idle"
    /\ \A other \in Tasks : other < t => task[other].pc # "idle"
    /\ updates < MaxUpdates
CanDispatch(t) ==
    /\ phase = "serving"
    /\ task[t].pc = "idle"
    /\ \A other \in Tasks : other < t => task[other].pc # "idle"
    /\ updates < MaxUpdates

\* The handler of slot t awaits; it resumes at pc with these locals
\* (history is the list of turns it passes to the LLM client; stored is a
\* history field: the handler's search has put an entry into the cache).
Await(t, pc, u, query, results, history, stored) ==
    [task EXCEPT ![t] = [pc |-> pc, user_id |-> u, query |-> query,
                         results |-> results, history |-> history,
                         stored |-> stored]]

\* The handler of slot t sends its last message and returns.
Finish(t) == [task EXCEPT ![t] = IdleTask]

Message(u, kind) == [user_id |-> u, kind |-> kind]

\* start, lines 39-56.
Start(t, u) ==
    /\ CanDispatch(t)
    /\ updates' = updates + 1
    /\ sent' = Message(u, "welcome")
    /\ UNCHANGED <<phase, message_history, user_data, task, streak>>
    /\ UNCHANGED <<ckvars, rvars, answered>>

\* help_command, lines 59-85.
HelpCommand(t, u) ==
    /\ CanDispatch(t)
    /\ updates' = updates + 1
    /\ sent' = Message(u, "help")
    /\ UNCHANGED <<phase, message_history, user_data, task, streak>>
    /\ UNCHANGED <<ckvars, rvars, answered>>

\* ask, lines 88-104: args is the joined text after /ask, empty when the
\* command came without arguments.
Ask(t, u, args) ==
    /\ CanDispatch(t)
    /\ updates' = updates + 1
    /\ IF args = << >>
       THEN /\ sent' = Message(u, "usage")
            /\ task' = task
       ELSE /\ sent' = sent
            /\ task' = Await(t, "ask_typing", u, args, << >>, << >>, FALSE)
    /\ UNCHANGED <<phase, message_history, user_data, streak>>
    /\ UNCHANGED <<ckvars, rvars, answered>>

\* Lines 128-129 and 261: message_history[user_id], the history a handler
\* reads.
HistoryOfFirstUser(history, user_id) == history[1]
HistoryOf(history, user_id) == history[user_id]

\* Line 129: message_history[user_id][-config.max_history_per_user:]
OldestTurns(history) == Slice(history, 0, max_history_per_user)
LastTurns(history) == Slice(history, -max_history_per_user, Len(history))

\* Lines 126-133: the turns that go into the context.
HistoryItems(history) ==
    IF history # << >> THEN LastTurns(history) ELSE << >>

\* Line 110: `if not results`.
NothingFoundNever(results) == FALSE
NothingFound(results) == results = << >>

\* ask, lines 106-138 and 159-163: search, remember the sources, build the
\* context and call the LLM; a failing search ends in the apology.
AskRetrieve(t, fault) ==
    /\ task[t].pc = "ask_typing"
    /\ \E r \in {SearchCall(collection, query_cache, task[t].query,
                            top_k_results, TRUE, fault)} :
         /\ query_cache' = r.cache
         /\ IF r.raised
            THEN /\ sent' = Message(task[t].user_id, "ask_error")
                 /\ task' = Finish(t)
                 /\ UNCHANGED <<user_data>>
            ELSE IF NothingFound(r.results)
            THEN /\ sent' = Message(task[t].user_id, "not_found")
                 /\ task' = Finish(t)
                 /\ UNCHANGED <<user_data>>
            ELSE /\ user_data' =
                      [user_data EXCEPT
                          ![task[t].user_id].last_sources = r.results]
                 /\ task' = Await(t, "ask_generate", task[t].user_id,
                                  task[t].query, r.results,
                                  HistoryItems(
                                      HistoryOf(message_history,
                                                task[t].user_id)),
                                  r.cache # query_cache)
                 /\ sent' = sent
    /\ UNCHANGED <<collection, data_dir, calls, ret, before>>
    /\ UNCHANGED <<phase, message_history, updates, streak>>
    /\ UNCHANGED <<ckvars, answered>>

\* Lines 141-145: the turn ask stores.
AskTurn(query, answer, results) ==
    [query |-> query, answer |-> answer,
     sources |-> [i \in 1..Len(results) |-> results[i].source]]

\* Lines 141-149: append the turn, keep only the last N.
AppendUntrimmed(history, turn) == Append(history, turn)
AppendWithoutTrim(history, turn) == Append(history, turn)
AppendAndKeepOldest(history, turn) ==
    LET h == Append(history, turn)
    IN  IF Len(h) > max_history_per_user
        THEN Slice(h, 0, max_history_per_user)
        ELSE h
AppendAndTrim(history, turn) ==
    LET h == Append(history, turn)
    IN  IF Len(h) > max_history_per_user
        THEN Slice(h, -max_history_per_user, Len(h))
        ELSE h

\* The turns of successful asks since another handler stored a turn; the
\* history keeps the last N + 1 of them.
Extend(turns, turn) ==
    LET h == Append(turns, turn)
    IN  IF Len(h) > max_history_per_user + 1 THEN Tail(h) ELSE h

\* ask, lines 138-157: generate returned the answer.
AskAnswered(t, answer) ==
    /\ task[t].pc = "ask_generate"
    /\ LET u == task[t].user_id
           turn == AskTurn(task[t].query, answer, task[t].results)
       IN  /\ message_history' =
                [message_history EXCEPT
                    ![u] = AppendAndTrim(message_history[u], turn)]
           /\ streak' = [streak EXCEPT ![u] = Extend(streak[u], turn)]
           /\ answered' = [answered EXCEPT ![u] = task[t].results]
           /\ sent' = Message(u, "answer")
    /\ task' = Finish(t)
    /\ UNCHANGED <<phase, user_data, updates>>
    /\ UNCHANGED <<ckvars, rvars>>

\* What the except branch of ask does to the history (lines 159-163).
AppendFailedQuery(history, query) ==
    Append(history, [query |-> query, answer |-> "", sources |-> << >>])
HistoryAfterFailure(history, query) == history

\* ask, lines 138 and 159-163: generate raised.
AskGenerateFailed(t) ==
    /\ task[t].pc = "ask_generate"
    /\ message_history' =
          [message_history EXCEPT
              ![task[t].user_id] =
                  HistoryAfterFailure(message_history[task[t].user_id],
                                      task[t].query)]
    /\ sent' = Message(task[t].user_id, "ask_error")
    /\ task' = Finish(t)
    /\ UNCHANGED <<phase, user_data, updates, streak>>
    /\ UNCHANGED <<ckvars, rvars, answered>>

\* sources, lines 166-184.
Sources(t, u) ==
    /\ CanDispatch(t)
    /\ updates' = updates + 1
    /\ sent' = IF user_data[u].last_sources = << >>
               THEN Message(u, "no_sources")
               ELSE Message(u, "sources")
    /\ UNCHANGED <<phase, message_history, user_data, task, streak>>
    /\ UNCHANGED <<ckvars, rvars, answered>>

\* image_command, lines 187-197: replied says whether the command replies
\* to a photo.
ImageCommand(t, u, replied) ==
    /\ CanDispatch(t)
    /\ updates' = updates + 1
    /\ IF replied
       THEN /\ task' = Await(t, "img_typing", u, << >>, << >>, << >>, FALSE)
            /\ UNCHANGED <<user_data, sent>>
       ELSE /\ user_data' = [user_data EXCEPT ![u].waiting_for_image = TRUE]
            /\ sent' = Message(u, "send_image")
            /\ task' = task
    /\ UNCHANGED <<phase, message_history, streak>>
    /\ UNCHANGED <<ckvars, rvars, answered>>

\* Line 203: context.user_data["waiting_for_image"] = False
KeepFlag(data) == data
ClearFlag(data) == [data EXCEPT !.waiting_for_image = FALSE]

\* handle_photo, lines 200-209.
HandlePhoto(t, u) ==
    /\ CanDispatch(t)
    /\ updates' = updates + 1
    /\ IF user_data[u].waiting_for_image
       THEN /\ user_data' = [user_data EXCEPT ![u] = ClearFlag(user_data[u])]
            /\ task' = Await(t, "img_typing", u, << >>, << >>, << >>, FALSE)
            /\ sent' = sent
       ELSE /\ sent' = Message(u, "photo_hint")
            /\ UNCHANGED <<user_data, task>>
    /\ UNCHANGED <<phase, message_history, streak>>
    /\ UNCHANGED <<ckvars, rvars, answered>>

\* process_image, lines 214-227 and 239-243: download the photo and call
\* the vision model; a failing download ends in the apology.
ImageDownload(t, ok) ==
    /\ task[t].pc = "img_typing"
    /\ IF ok
       THEN /\ task' = Await(t, "img_describe", task[t].user_id, << >>, << >>,
                             << >>, FALSE)
            /\ sent' = sent
       ELSE /\ sent' = Message(task[t].user_id, "image_error")
            /\ task' = Finish(t)
    /\ UNCHANGED <<phase, message_history, user_data, updates, streak>>
    /\ UNCHANGED <<ckvars, rvars, answered>>

\* Lines 231-235: the turn process_image stores.
ImageTurnWithoutQuery(description) ==
    [query |-> << >>, answer |-> description,
     sources |-> <<"image_description">>]
ImageTurn(description) ==
    [query |-> ImageUploaded, answer |-> description,
     sources |-> <<"image_description">>]

\* process_image, lines 227-237: describe_image returned.
ImageDescribed(t, description) ==
    /\ task[t].pc = "img_describe"
    /\ LET u == task[t].user_id
       IN  /\ message_history' =
                [message_history EXCEPT
                    ![u] = AppendUntrimmed(message_history[u],
                                           ImageTurn(description))]
           /\ streak' = [streak EXCEPT ![u] = << >>]
           /\ sent' = Message(u, "description")
    /\ task' = Finish(t)
    /\ UNCHANGED <<phase, user_data, updates>>
    /\ UNCHANGED <<ckvars, rvars, answered>>

\* process_image, lines 227 and 239-243: describe_image raised.
ImageDescribeFailed(t) ==
    /\ task[t].pc = "img_describe"
    /\ sent' = Message(task[t].user_id, "image_error")
    /\ task' = Finish(t)
    /\ UNCHANGED <<phase, message_history, user_data, updates, streak>>
    /\ UNCHANGED <<ckvars, rvars, answered>>

\* summarize, lines 246-257.
Summarize(t, u) ==
    /\ CanDispatch(t)
    /\ updates' = updates + 1
    /\ IF message_history[u] = << >>
       THEN /\ sent' = Message(u, "no_history")
            /\ task' = task
       ELSE /\ sent' = sent
            /\ task' = Await(t, "sum_typing", u, << >>, << >>, << >>, FALSE)
    /\ UNCHANGED <<phase, message_history, user_data, streak>>
    /\ UNCHANGED <<ckvars, rvars, answered>>

\* summarize, lines 259-273: build the conversation and call the LLM.
SummarizeGenerate(t) ==
    /\ task[t].pc = "sum_typing"
    /\ task' = Await(t, "sum_generate", task[t].user_id, << >>, << >>,
                     HistoryOf(message_history, task[t].user_id), FALSE)
    /\ UNCHANGED <<phase, message_history, user_data, updates, sent, streak>>
    /\ UNCHANGED <<ckvars, rvars, answered>>

\* summarize, lines 273-284: generate returned or raised.
Summarized(t, ok) ==
    /\ task[t].pc = "sum_generate"
    /\ sent' = Message(task[t].user_id,
                       IF ok THEN "summary" ELSE "summary_error")
    /\ task' = Finish(t)
    /\ UNCHANGED <<phase, message_history, user_data, updates, streak>>
    /\ UNCHANGED <<ckvars, rvars, answered>>

Next ==
    \/ Main
    \/ \E t \in Tasks, u \in Users : Start(t, u)
    \/ \E t \in Tasks, u \in Users : HelpCommand(t, u)
    \/ \E t \in Tasks, u \in Users, args \in Queries \cup {<< >>} :
          Ask(t, u, args)
    \/ \E t \in Tasks, f \in Faults : AskRetrieve(t, f)
    \/ \E t \in Tasks, a \in Answers : AskAnswered(t, a)
    \/ \E t \in Tasks : AskGenerateFailed(t)
    \/ \E t \in Tasks, u \in Users : Sources(t, u)
    \/ \E t \in Tasks, u \in Users, r \in BOOLEAN : ImageCommand(t, u, r)
    \/ \E t \in Tasks, u \in Users : HandlePhoto(t, u)
    \/ \E t \in Tasks, ok \in BOOLEAN : ImageDownload(t, ok)
    \/ \E t \in Tasks, d \in Descriptions : ImageDescribed(t, d)
    \/ \E t \in Tasks : ImageDescribeFailed(t)
    \/ \E t \in Tasks, u \in Users : Summarize(t, u)
    \/ \E t \in Tasks : SummarizeGenerate(t)
    \/ \E t \in Tasks, ok \in BOOLEAN : Summarized(t, ok)

Spec == Init /\ [][Next]_vars

(***************************************************************************)
(* SpecLate: the bot later in its life.  It starts from a state Spec       *)
(* reaches after max_history_per_user + 1 updates, in which user 1 got one *)
(* answer and then had max_history_per_user images described, and counts   *)
(* the updates dispatched from there on.                                   *)
(***************************************************************************)
\* The index main() builds from FullDir.
FullIndex == AddDocuments(<< >>, LoadDocuments(FullDir))

\* The query user 1 asked, and the results its search returned.
LateQuery == <<"a">>
LateResults ==
    SearchCall(FullIndex, << >>, LateQuery, top_k_results, TRUE, "none").results

\* n image turns appended to history, as process_image appends them.
RECURSIVE WithImageTurns(_, _)
WithImageTurns(history, n) ==
    IF n = 0 THEN history
    ELSE WithImageTurns(
             AppendUntrimmed(history, ImageTurn("description")), n - 1)

LateHistory ==
    WithImageTurns(
        AppendAndTrim(<< >>, AskTurn(LateQuery, "answer", LateResults)),
        max_history_per_user)

LateInit ==
    /\ collection = FullIndex
    /\ data_dir = FullDir
    /\ before = [collection |-> << >>, query_cache |-> << >>]
    /\ query_cache = CacheAfterMiss(<< >>, LateQuery, Embed(LateQuery), TRUE)
    /\ calls = << >>
    /\ ret = NoReturn
    /\ phase = "serving"
    /\ message_history = [u \in Users |-> IF u = 1 THEN LateHistory ELSE << >>]
    /\ user_data = [u \in Users |->
                      [last_sources |-> IF u = 1 THEN LateResults ELSE << >>,
                       waiting_for_image |-> FALSE]]
    /\ task = [t \in Tasks |-> IdleTask]
    /\ updates = 0
    /\ sent = Message(1, "description")
    /\ streak = [u \in Users |-> << >>]
    /\ answered = [u \in Users |-> IF u = 1 THEN LateResults ELSE << >>]
    /\ ChunkIdle

LateNext ==
    \/ \E t \in Tasks, u \in Users : Start(t, u)
    \/ \E t \in Tasks, u \in Users : HelpCommand(t, u)
    \/ \E t \in Tasks, u \in Users, args \in Queries \cup {<< >>} :
          Ask(t, u, args)
    \/ \E t \in Tasks, f \in Faults : AskRetrieve(t, f)
    \/ \E t \in Tasks, a \in Answers : AskAnswered(t, a)
    \/ \E t \in Tasks : AskGenerateFailed(t)
    \/ \E t \in Tasks, u \in Users : Sources(t, u)
    \/ \E t \in Tasks, u \in Users, r \in BOOLEAN : ImageCommand(t, u, r)
    \/ \E t \in Tasks, u \in Users : HandlePhoto(t, u)
    \/ \E t \in Tasks, ok \in BOOLEAN : ImageDownload(t, ok)
    \/ \E t \in Tasks, d \in Descriptions : ImageDescribed(t, d)
    \/ \E t \in Tasks : ImageDescribeFailed(t)
    \/ \E t \in Tasks, u \in Users : Summarize(t, u)
    \/ \E t \in Tasks : SummarizeGenerate(t)
    \/ \E t \in Tasks, ok \in BOOLEAN : Summarized(t, ok)

SpecLate == LateInit /\ [][LateNext]_vars

(***************************************************************************)
(* Claims about chunk_text, checked under SpecChunk.                       *)
(***************************************************************************)
NoWhitespace(t) == \A k \in 1..Len(t) : t[k] \notin Whitespace

\* The part of the text the i-th window covers, as 0-based [from, to).
WindowFrom(i) == SliceIndex(windows[i][1], Len(text))
WindowTo(i) == SliceIndex(windows[i][2], Len(text))

\* C7: a text whose trimmed length is at most chunk_size (also when its
\* untrimmed length is larger) yields exactly one chunk, the trimmed text,
\* or no chunk when the trimmed text is empty.
C7_TrimmedFitsOneChunk ==
    (ck_pc = "done" /\ Len(Strip(text)) <= chunk_size)
        => chunks = (IF Strip(text) = << >> THEN << >> ELSE <<Strip(text)>>)

\* C8: with overlap >= chunk_size on a text longer than chunk_size, no
\* iteration of the window loop leaves start unchanged or smaller.
C8_NoStalledIteration ==
    (overlap >= chunk_size /\ Len(text) > chunk_size /\ windows # << >>)
        => start > windows[Len(windows)][1]

\* C9: on a text longer than chunk_size without whitespace, with
\* 0 <= overlap < chunk_size, the windows start at 0, advance by exactly
\* chunk_size - overlap, adjacent windows share exactly overlap characters,
\* every chunk is its window's text and, on return, the windows cover the
\* whole text.
C9_RawWindows ==
    (Len(text) > chunk_size /\ overlap < chunk_size /\ NoWhitespace(text))
        => /\ \A i \in 1..Len(windows) :
                /\ windows[i][1] = (i - 1) * (chunk_size - overlap)
                /\ windows[i][2] = windows[i][1] + chunk_size
           /\ \A i \in 1..(Len(windows) - 1) :
                /\ WindowFrom(i + 1) < WindowTo(i)  \/ overlap = 0
                /\ WindowTo(i) - WindowFrom(i + 1) = overlap
                /\ WindowTo(i) <= WindowTo(i + 1)
           /\ Len(chunks) = Len(windows)
           /\ \A i \in 1..Len(windows) :
                chunks[i] = SubSeq(text, WindowFrom(i) + 1, WindowTo(i))
           /\ ck_pc = "done" =>
                \A k \in 0..(Len(text) - 1) :
                    \E i \in 1..Len(windows) :
                        WindowFrom(i) <= k /\ k < WindowTo(i)

\* C9 witness: the scenario of the specification has returned with the
\* windows [0,10) and [7,15).
C9_Witness ==
    /\ ck_pc = "done"
    /\ text = ScenarioText /\ chunk_size = 10 /\ overlap = 3
    /\ Len(windows) = 2
    /\ <<WindowFrom(1), WindowTo(1)>> = <<0, 10>>
    /\ <<WindowFrom(2), WindowTo(2)>> = <<7, 15>>
    /\ chunks = <<SubSeq(ScenarioText, 1, 10), SubSeq(ScenarioText, 8, 15)>>

\* C15: with 0 <= overlap < chunk_size every iteration of the window loop
\* strictly increases start, whatever breaks the text holds.
C15_StartAdvances ==
    (overlap < chunk_size /\ windows # << >>)
        => start > windows[Len(windows)][1]

\* C16: when chunk_text has returned, the windows it cut begin at
\* increasing offsets and leave no gap: every position of the text lies in
\* a window, and every non-whitespace character lies in a window whose
\* trimmed text is one of the returned chunks; a text returned without any
\* window is returned whole, trimmed.
C16_WindowsLeaveNoGap ==
    ck_pc = "done" =>
        /\ \A i \in 1..(Len(windows) - 1) :
              /\ windows[i][1] < windows[i + 1][1]
              /\ windows[i + 1][1] <= windows[i][2]
        /\ windows # << >> =>
              \A k \in 0..(Len(text) - 1) :
                  \E i \in 1..Len(windows) :
                      /\ WindowFrom(i) <= k /\ k < WindowTo(i)
                      /\ text[k + 1] \notin Whitespace =>
                            \E j \in 1..Len(chunks) :
                                chunks[j] = Strip(Slice(text, windows[i][1],
                                                        windows[i][2]))
        /\ windows = << >> =>
              chunks = (IF Strip(text) = << >> THEN << >> ELSE <<Strip(text)>>)

\* C17: every chunk emitted so far is non-empty, begins and ends with a
\* non-whitespace character and is at most chunk_size characters long.
C17_ChunksTrimmedAndBounded ==
    \A j \in 1..Len(chunks) :
        /\ chunks[j] # << >>
        /\ chunks[j][1] \notin Whitespace
        /\ chunks[j][Len(chunks[j])] \notin Whitespace
        /\ Len(chunks[j]) <= chunk_size

\* C17 witness: chunk_text has returned two chunks or more, and one window
\* it cut began or ended with whitespace that the chunk does not have.
C17_Witness ==
    /\ ck_pc = "done"
    /\ Len(chunks) >= 2
    /\ \E i \in 1..Len(windows) :
          LET raw == Slice(text, windows[i][1], windows[i][2])
          IN  /\ Strip(raw) # << >>
              /\ Strip(raw) # raw
              /\ \E j \in 1..Len(chunks) : chunks[j] = Strip(raw)

\* The 0-based offsets in [from, to) at which sub begins and fits.
BreaksIn(sub, from, to) ==
    {k \in from..(to - Len(sub)) : SubSeq(text, k + 1, k + Len(sub)) = sub}

\* C18: a window that begins inside the text at st and whose full extent
\* st + chunk_size stays short of the text's end is cut at the last
\* paragraph break in it if that break lies after st + chunk_size \div 2;
\* otherwise just after the period of the last sentence break in it if
\* that break lies after the same midpoint; otherwise at st + chunk_size.
\* A later sentence break does not override a qualifying paragraph break.
C18_BoundaryChoice ==
    \A i \in 1..Len(windows) :
        LET st == windows[i][1]
            en == windows[i][2]
            mid == st + (chunk_size \div 2)
            paras == BreaksIn(<<"\n", "\n">>, st, st + chunk_size)
            sents == BreaksIn(<<".", " ">>, st, st + chunk_size)
        IN  (st >= 0 /\ st + chunk_size < Len(text)) =>
               IF paras # {} /\ Max(paras) > mid
               THEN en = Max(paras)
               ELSE IF sents # {} /\ Max(sents) > mid
                    THEN en = Max(sents) + 1
                    ELSE en = st + chunk_size

\* C18 witness: the first window of BreaksText was cut at its paragraph
\* break although a sentence break follows inside the window.
C18_Witness ==
    /\ text = BreaksText /\ chunk_size = 9
    /\ ck_pc = "done"
    /\ windows[1] = <<0, 5>>
    /\ BreaksIn(<<".", " ">>, 0, 9) = {7}
    /\ chunks[1] = <<"a", "a", "a", "a", "a">>

(***************************************************************************)
(* Claims about the Retriever, checked under SpecRetriever.                *)
(***************************************************************************)
Range(f) == {f[i] : i \in DOMAIN f}

\* The last call and the call before it.
LastCall == calls[Len(calls)]
CallBefore == calls[1]

LastWas(op) == calls # << >> /\ LastCall.op = op
LastTwoWere(op1, op2) ==
    Len(calls) = 2 /\ CallBefore.op = op1 /\ LastCall.op = op2

\* C5: a second index_documents without force_reindex, the directory
\* unchanged in between, leaves the index and get_document_count() as the
\* first call left them; on a non-empty index it loads, embeds and adds
\* nothing and returns the current count.
C5_SecondIndexIsNoOp ==
    (LastTwoWere("index_documents", "index_documents") /\ ~LastCall.flag)
        => /\ collection = before.collection
           /\ get_document_count(collection)
                = get_document_count(before.collection)
           /\ before.collection # << >> =>
                /\ ~ret.raised
                /\ ~ret.loaded /\ ret.embedded = 0 /\ ret.added = 0
                /\ ret.result = get_document_count(collection)

\* C5 witness: two index_documents calls in a row, the second without
\* force_reindex on a non-empty index, returning its count.
C5_Witness ==
    /\ LastTwoWere("index_documents", "index_documents")
    /\ ~LastCall.flag
    /\ before.collection # << >>
    /\ ret.result = Len(collection)
    /\ data_dir.exists

\* C6: with caching enabled, two successful searches for the same query in
\* a row compute its embedding once in total when the query was not cached
\* before (the first computes it, the second reuses it; none at all when
\* it was cached already), and a search right after clear_cache computes
\* the embedding anew.
C6_OneEmbeddingPerQuery ==
    /\ (/\ LastTwoWere("search", "search")
         /\ CallBefore.flag /\ LastCall.flag
         /\ CallBefore.query = LastCall.query
         /\ ~CallBefore.raised /\ ~LastCall.raised)
            => /\ LastCall.embeds = 0
               /\ CallBefore.embeds + LastCall.embeds
                    = (IF CallBefore.hit THEN 0 ELSE 1)
    /\ (LastTwoWere("clear_cache", "search") /\ LastCall.flag)
            => LastCall.embeds = 1

\* C6 witness: a query that was not cached has been searched twice in a
\* row with caching; the first search computed its embedding.
C6_Witness ==
    /\ LastTwoWere("search", "search")
    /\ CallBefore.flag /\ LastCall.flag
    /\ CallBefore.query = LastCall.query
    /\ ~CallBefore.raised /\ ~LastCall.raised
    /\ ~CallBefore.hit /\ CallBefore.embeds = 1 /\ LastCall.hit

\* The entries one indexing pass builds from directory dir: one per chunk
\* of each file, with the chunk's id, text, source and embedding.
ExpectedEntries(dir) ==
    UNION {
        LET cs == ChunkText(dir.files[stem], LoadChunkSize, LoadOverlap)
        IN  {[id |-> ChunkId(stem, i - 1),
              embedding |-> Embed(cs[i]),
              document |-> cs[i],
              metadata |-> [source |-> FileName(stem),
                            chunk_id |-> ChunkId(stem, i - 1)]] :
                i \in 1..Len(cs)} :
        stem \in DOMAIN dir.files}

\* C10: after a successful index_documents(force_reindex=True) on a
\* non-empty index, the index holds exactly the entries built from the
\* documents now in data_dir, each once; no older entry survives.
C10_ForceReindexRebuilds ==
    (/\ LastWas("index_documents") /\ LastCall.flag /\ ~ret.raised
     /\ before.collection # << >>)
        => /\ Range(collection) = ExpectedEntries(data_dir)
           /\ Len(collection) = Cardinality(ExpectedEntries(data_dir))
           /\ \A e \in Range(before.collection) :
                e \notin ExpectedEntries(data_dir) => e \notin Range(collection)

\* C10 witness: a forced reindex of a non-empty index has succeeded and an
\* entry the index held before is gone, while new entries are there.
C10_Witness ==
    /\ LastWas("index_documents") /\ LastCall.flag /\ ~ret.raised
    /\ before.collection # << >>
    /\ collection # << >>
    /\ \E e \in Range(before.collection) : e \notin Range(collection)
    /\ \E e \in Range(collection) : e \notin Range(before.collection)

\* C11: a search that returns gives min(top_k, number of index entries)
\* results, nearest first (ascending distance, descending relevance_score);
\* each result carries the content, source and chunk_id of an index entry
\* of its own, that entry's distance to the query and relevance_score =
\* 1 - distance, and no entry left out is nearer than a returned one.
C11_SearchResults ==
    (LastWas("search") /\ ~ret.raised) =>
        LET results == ret.results
            q == Embed(LastCall.query)
            Matches(r, e) ==
                /\ r.content = e.document
                /\ r.source = e.metadata.source
                /\ r.chunk_id = e.metadata.chunk_id
                /\ r.distance = Distance(q, e.embedding)
        IN  /\ Len(results) = Min2(ret.top_k, Len(collection))
            /\ \A i \in 1..Len(results) :
                  /\ results[i].relevance_score = 1 - results[i].distance
                  /\ \E j \in 1..Len(collection) :
                        Matches(results[i], collection[j])
                  /\ \A k \in 1..Len(results) :
                        i < k =>
                           /\ results[i].distance <= results[k].distance
                           /\ results[i].relevance_score
                                 >= results[k].relevance_score
                           /\ results[i].chunk_id # results[k].chunk_id
            /\ \A j \in 1..Len(collection) :
                  (\A i \in 1..Len(results) :
                       results[i].chunk_id # collection[j].metadata.chunk_id)
                     => \A i \in 1..Len(results) :
                           results[i].distance
                              <= Distance(q, collection[j].embedding)

\* C11 witness: a search with top_k = 2 on an index of more than two
\* entries returned two results, the first strictly nearer than the second
\* and not the entry inserted first.
C11_Witness ==
    /\ LastWas("search") /\ ~ret.raised
    /\ ret.top_k = 2 /\ Len(collection) > 2
    /\ Len(ret.results) = 2
    /\ ret.results[1].distance < ret.results[2].distance
    /\ ret.results[1].chunk_id # collection[1].id

\* C19: after an index_documents call that returned, the returned value
\* is get_document_count(); if the call made an indexing pass, the i-th
\* chunk (counted from 0) of each file of data_dir is in the index under
\* the id <stem>_<i>, the ids in the index are pairwise distinct, there is
\* no other entry, and with no documents in data_dir the call returned 0.
C19_IdsAndReturnedCount ==
    (LastWas("index_documents") /\ ~ret.raised) =>
        /\ ret.result = get_document_count(collection)
        /\ ret.loaded =>
              /\ \A stem \in DOMAIN data_dir.files :
                    LET cs == ChunkText(data_dir.files[stem], LoadChunkSize,
                                        LoadOverlap)
                    IN  \A i \in 0..(Len(cs) - 1) :
                           \E k \in 1..Len(collection) :
                              /\ collection[k].id = stem \o "_" \o ToString(i)
                              /\ collection[k].metadata.chunk_id
                                    = collection[k].id
                              /\ collection[k].metadata.source = stem \o ".md"
                              /\ collection[k].document = cs[i + 1]
              /\ Cardinality(GetIds(collection)) = Len(collection)
              /\ \A k \in 1..Len(collection) :
                    \E stem \in DOMAIN data_dir.files :
                       collection[k].metadata.source = stem \o ".md"
              /\ ret.result = ret.added
              /\ DOMAIN data_dir.files = {} => ret.result = 0

\* C19 witness: an indexing pass over two files, one of them split into
\* two chunks, has returned 3 and the index holds a_0, a_1 and b_0.
C19_Witness ==
    /\ LastWas("index_documents") /\ ~ret.raised /\ ret.loaded
    /\ ret.result = 3
    /\ GetIds(collection) = {"a_0", "a_1", "b_0"}
    /\ Len(collection) = 3

\* C20: when index_documents fails because data_dir does not exist, the
\* index holds exactly the entries it held before the call, with or
\* without force_reindex.
C20_FailedIndexKeepsEntries ==
    (LastWas("index_documents") /\ ret.raised /\ ~data_dir.exists)
        => collection = before.collection

(***************************************************************************)
(* Claims about the bot's handlers (Spec)                                  *)
(***************************************************************************)

\* The slot whose ask handler takes this step, and how the step ends.
AskStep(t) ==
    /\ task[t].pc \in {"ask_typing", "ask_generate"}
    /\ task'[t] # task[t]
AskFails(t) ==
    /\ AskStep(t)
    /\ task'[t].pc = "idle"
    /\ sent'.kind = "ask_error"
GenerationFails(t) ==
    /\ task[t].pc = "ask_generate"
    /\ task'[t].pc = "idle"
    /\ sent'.kind # "answer"

\* C1: once N + 1 successful asks of one user have stored their turns in a
\* row (N = max_history_per_user, no other handler storing a turn for that
\* user in between), the user's history has exactly N entries: the turn of
\* the first of these asks is gone and the N later turns are there in the
\* order in which they were answered.
C1_WindowAfterAsks ==
    \A u \in Users :
        Len(streak[u]) = max_history_per_user + 1 =>
            /\ Len(message_history[u]) = max_history_per_user
            /\ message_history[u] =
                  SubSeq(streak[u], 2, max_history_per_user + 1)

\* C1 witness: N + 1 asks of one user were answered in a row, the first with
\* another query than the second, and the history holds N turns.
C1_Witness ==
    \E u \in Users :
        /\ Len(streak[u]) = max_history_per_user + 1
        /\ streak[u][1].query # streak[u][2].query
        /\ Len(message_history[u]) = max_history_per_user

\* C2: in every reachable state, whatever asks were answered and images
\* processed, each user's history holds at most max_history_per_user turns.
C2_HistoryBounded ==
    \A u \in Users : Len(message_history[u]) <= max_history_per_user

\* C3: when the generation backend fails during an ask, the handler does not
\* crash the process, sends the apology to the requesting user and leaves
\* every history as it is; no earlier step of the request (the search, the
\* building of the context) changes a history either, so the failed query
\* is not appended.
C3_GenerationFailureKeepsHistory ==
    [][\A t \in Tasks :
          /\ GenerationFails(t) =>
                /\ sent' = Message(task[t].user_id, "ask_error")
                /\ message_history' = message_history
                /\ phase' = "serving"
          /\ (AskStep(t) /\ sent'.kind # "answer") =>
                message_history' = message_history]_vars

\* C3 witness: the only request so far was an ask whose search returned
\* results and whose generation failed: the apology is out, no turn stored.
C3_Witness ==
    /\ updates = 1
    /\ sent.kind = "ask_error"
    /\ user_data[sent.user_id].last_sources # << >>
    /\ message_history[sent.user_id] = << >>
    /\ \A t \in Tasks : task[t].pc = "idle"

\* C4 (as stated): when an ask fails, in the search or in the generation,
\* the request has left the query cache as it was: the failing step does
\* not change it and the request's search has stored nothing in it.
C4_CacheUntouchedByFailedAsk ==
    [][\A t \in Tasks :
          AskFails(t) => (query_cache' = query_cache /\ ~task[t].stored)]_vars

\* C4 (amended): an ask request, failing or not, changes the query cache at
\* most by adding one entry, its own query mapped to that query's
\* embedding; every entry the cache held stays as it was.
C4_FailedAskOnlyAddsOwnEmbedding ==
    [][\A t \in Tasks :
          AskStep(t) =>
             /\ \A q \in DOMAIN query_cache :
                   /\ q \in DOMAIN query_cache'
                   /\ query_cache'[q] = query_cache[q]
             /\ \A q \in DOMAIN query_cache' \ DOMAIN query_cache :
                   /\ q = task[t].query
                   /\ query_cache'[q] = Embed(q)]_vars

\* C4 witness: the only request so far was an ask that failed, and the
\* cache, empty before it, now holds the embedding of its query.
C4_Witness ==
    /\ updates = 1
    /\ sent.kind = "ask_error"
    /\ \A t \in Tasks : task[t].pc = "idle"
    /\ \E q \in Queries :
          /\ DOMAIN query_cache = {q}
          /\ query_cache[q] = Embed(q)

\* C12: the index changes only while main() initialises, before any update
\* has been dispatched and with no handler running, and main() never
\* initialises a second time; so no search of a handler sees the index
\* between the deletion of old entries and the addition of new ones, and
\* indexing runs at most once per process, before any request is served.
C12_IndexingOnlyBeforeServing ==
    [][/\ collection' # collection =>
            /\ phase = "boot"
            /\ updates = 0
            /\ \A t \in Tasks : task[t].pc = "idle"
       /\ phase # "boot" => phase' = phase
       /\ (\E t \in Tasks : task'[t] # task[t]) => phase = "serving"]_vars

\* C12 witness: main() has indexed the data directory and a handler's
\* search has read the index: its ask holds results while it generates.
C12_Witness ==
    /\ phase = "serving"
    /\ before.collection = << >>
    /\ Range(collection) = ExpectedEntries(data_dir)
    /\ collection # << >>
    /\ \E t \in Tasks : task[t].pc = "ask_generate" /\ task[t].results # << >>

\* The step in which the ask handler of slot t stores its answer.
AskCompletes(t) ==
    /\ task[t].pc = "ask_generate"
    /\ task'[t].pc = "idle"
    /\ sent'.kind = "answer"

\* C13: whatever other handlers are in flight, the step in which an ask
\* handler finishes with an answer appends its turn and trims in one go:
\* afterwards the user's history ends with the new turn, holds
\* min(N, old length + 1) turns, N = max_history_per_user, the turns before
\* the new one are the latest of the old history in their order (so only
\* the oldest are evicted), and no other user's history changes.
C13_AppendAndTrimAtomic ==
    [][\A t \in Tasks :
          AskCompletes(t) =>
             LET u == task[t].user_id
                 old == message_history[u]
                 new == message_history'[u]
                 kept == Len(new) - 1
             IN  /\ Len(new) = Min2(max_history_per_user, Len(old) + 1)
                 /\ new[Len(new)].query = task[t].query
                 /\ new[Len(new)].answer \in Answers
                 /\ \A i \in 1..kept : new[i] = old[Len(old) - kept + i]
                 /\ \A v \in Users \ {u} :
                       message_history'[v] = message_history[v]]_vars

\* C13 witness: two asks of one user ran interleaved: one has stored its
\* turn while the other, which built its context from the still empty
\* history, is waiting for its answer.
C13_Witness ==
    \E t \in Tasks :
        /\ task[t].pc = "ask_generate"
        /\ task[t].history = << >>
        /\ Len(message_history[task[t].user_id]) = 1
        /\ message_history[task[t].user_id][1].query # ImageUploaded
        /\ streak[task[t].user_id] = message_history[task[t].user_id]

\* C14: for a user with no ask waiting for its answer, what /sources shows
\* (last_sources) is the list of search results used for the user's last
\* answered ask, nothing when no ask was answered yet; in particular an ask
\* whose generation failed has not changed it.
C14_SourcesOfLastAnswer ==
    \A u \in Users :
        (\A t \in Tasks : ~(task[t].pc = "ask_generate" /\ task[t].user_id = u))
            => user_data[u].last_sources = answered[u]

\* C21: when the search of an ask returns without a fault and finds
\* nothing, the handler ends there: it reports that nothing was found (not
\* the apology), no handler starts waiting for the generation backend, and
\* every user's history and user data (last_sources) stay as they were.
C21_EmptyResultIsNotAnError ==
    [][\A t \in Tasks :
          (/\ AskRetrieve(t, "none")
           /\ SearchCall(collection, query_cache, task[t].query,
                         top_k_results, TRUE, "none").results = << >>)
             => /\ task'[t].pc = "idle"
                /\ sent' = Message(task[t].user_id, "not_found")
                /\ \A other \in Tasks :
                      task'[other].pc = "ask_generate"
                         => task[other].pc = "ask_generate"
                /\ message_history' = message_history
                /\ user_data' = user_data]_vars

\* C21 witness: on an empty index the only request so far, an ask, has
\* ended with the nothing-found message.
C21_Witness ==
    /\ phase = "serving"
    /\ collection = << >>
    /\ updates = 1
    /\ sent.kind = "not_found"
    /\ \A t \in Tasks : task[t].pc = "idle"
    /\ \A u \in Users :
          message_history[u] = << >> /\ user_data[u].last_sources = << >>

\* C22: when an ask hands its request to the generation backend, the
\* request holds the results of the search in rank order (nearest first)
\* and, after them, the last min(N, length) turns of the requesting user's
\* stored history, oldest first, N = max_history_per_user, also when the
\* stored history is longer than N.
C22_ContextOfAsk ==
    [][\A t \in Tasks :
          (task[t].pc = "ask_typing" /\ task'[t].pc = "ask_generate") =>
             LET stored == message_history[task[t].user_id]
                 n == Min2(max_history_per_user, Len(stored))
                 turns == task'[t].history
                 results == task'[t].results
             IN  /\ Len(turns) = n
                 /\ \A i \in 1..n : turns[i] = stored[Len(stored) - n + i]
                 /\ results = FormatResults(Query(collection,
                                                  Embed(task[t].query),
                                                  top_k_results))
                 /\ \A i \in 1..(Len(results) - 1) :
                       results[i].distance <= results[i + 1].distance]_vars

\* C22 witness: user 1, whose stored history holds N + 1 turns beginning
\* with an answered ask, is waiting for an answer; the request holds the N
\* image turns and not the older ask turn.
C22_Witness ==
    \E t \in Tasks :
        /\ task[t].pc = "ask_generate"
        /\ task[t].user_id = 1
        /\ message_history[1] = LateHistory
        /\ Len(message_history[1]) = max_history_per_user + 1
        /\ Len(task[t].history) = max_history_per_user
        /\ task[t].history # SubSeq(LateHistory, 1, max_history_per_user)
        /\ \A i \in 1..max_history_per_user :
              task[t].history[i] = LateHistory[i + 1]
        /\ Len(task[t].results) = top_k_results

\* The slot whose process_image takes this step.
ImageStep(t) ==
    /\ task[t].pc \in {"img_typing", "img_describe"}
    /\ task'[t] # task[t]

\* C23: the step in which an image has been described appends exactly one
\* turn to the requesting user's history, with the query "[Image uploaded]"
\* and the description as answer, and changes no other history; a step in
\* which the download or the description fails, like every other step of
\* process_image, changes no history.
C23_ImageTurn ==
    [][\A t \in Tasks :
          ImageStep(t) =>
             IF task[t].pc = "img_describe" /\ sent'.kind = "description"
             THEN LET u == task[t].user_id
                      new == message_history'[u]
                  IN  /\ Len(new) = Len(message_history[u]) + 1
                      /\ SubSeq(new, 1, Len(new) - 1) = message_history[u]
                      /\ new[Len(new)].query = <<"[Image uploaded]">>
                      /\ new[Len(new)].answer \in Descriptions
                      /\ \A v \in Users \ {u} :
                            message_history'[v] = message_history[v]
             ELSE message_history' = message_history]_vars

\* C23 witness: the only request so far was a photo that has been
\* described, and the user's history is the one image turn.
C23_Witness ==
    /\ updates = 1
    /\ sent.kind = "description"
    /\ Len(message_history[sent.user_id]) = 1
    /\ message_history[sent.user_id][1].query = <<"[Image uploaded]">>
    /\ \A t \in Tasks : task[t].pc = "idle"

\* C24: a photo message starts a description only in a step that finds the
\* user's waiting_for_image flag set, and that same step clears the flag,
\* before process_image first awaits; a photo that finds the flag unset only
\* gets the hint and changes neither a history nor the user data nor a
\* handler; and the flag becomes set only by an /image command that does
\* not reply to a photo.  So between two photos of a user described this
\* way there is such a command, however the handlers interleave.
C24_PhotoNeedsFlag ==
    [][\A u \in Users :
          /\ \A t \in Tasks :
                HandlePhoto(t, u) =>
                   IF user_data[u].waiting_for_image
                   THEN /\ ~user_data'[u].waiting_for_image
                        /\ task[t].pc = "idle"
                        /\ task'[t].pc = "img_typing"
                        /\ task'[t].user_id = u
                        /\ message_history' = message_history
                   ELSE /\ sent' = [user_id |-> u, kind |-> "photo_hint"]
                        /\ message_history' = message_history
                        /\ user_data' = user_data
                        /\ task' = task
          /\ (~user_data[u].waiting_for_image /\ user_data'[u].waiting_for_image)
                => \E t \in Tasks : ImageCommand(t, u, FALSE)
          /\ (user_data[u].waiting_for_image /\ ~user_data'[u].waiting_for_image)
                => \E t \in Tasks : HandlePhoto(t, u)]_vars

\* C24 witness: after one /image command a user sent two photos; the
\* first is still being described while the second only got the hint.
C24_Witness ==
    \E u \in Users, t \in Tasks :
       /\ updates = 3
       /\ task[t].pc \in {"img_typing", "img_describe"}
       /\ task[t].user_id = u
       /\ \A other \in Tasks \ {t} : task[other].pc = "idle"
       /\ ~user_data[u].waiting_for_image
       /\ sent = [user_id |-> u, kind |-> "photo_hint"]
       /\ \A v \in Users : message_history[v] = << >>

\* The turns of a history, as a set.
Turns(history) == {history[i] : i \in 1..Len(history)}

\* C25: a step changes the stored history of a user only if it is a step of
\* a handler running for that user, so no handler of user A changes the
\* history of another user B; and the turns a handler of A passes to the
\* LLM client are read from A's own history: the last
\* min(max_history_per_user, length) turns of it for ask, all of it for
\* summarize.  This holds for every interleaving of the handlers.
C25_HistoriesAreSeparate ==
    [][/\ \A b \in Users :
             message_history'[b] # message_history[b] =>
                \E t \in Tasks :
                   /\ task[t].user_id = b
                   /\ task[t].pc \in {"ask_generate", "img_describe"}
                   /\ task'[t].pc = "idle"
       /\ \A t \in Tasks :
             LET own == message_history[task'[t].user_id]
                 n == Min2(max_history_per_user, Len(own))
             IN  /\ (task[t].pc = "ask_typing" /\ task'[t].pc = "ask_generate")
                       => task'[t].history = SubSeq(own, Len(own) - n + 1, Len(own))
                 /\ (task[t].pc = "sum_typing" /\ task'[t].pc = "sum_generate")
                       => task'[t].history = own]_vars

\* C25 witness: user B has an answered question in its history, user A a
\* described image, and A's ask is waiting for the LLM with a context that
\* holds A's turn and no turn of B.
C25_Witness ==
    \E a \in Users, b \in Users, t \in Tasks :
       /\ a # b
       /\ task[t].pc = "ask_generate"
       /\ task[t].user_id = a
       /\ message_history[b] # << >>
       /\ task[t].history # << >>
       /\ task[t].history = message_history[a]
       /\ Turns(task[t].history) \cap Turns(message_history[b]) = {}

(***************************************************************************)
(* The query cache of the Retriever, checked under SpecRetriever.          *)
(***************************************************************************)
\* C26: every cache entry maps a query to the embedding the embedder
\* computes for that query; an entry that was there before the last call
\* is missing after it only if the call was clear_cache; a search that
\* returns gives the results of the index for the embedding of its own
\* query and its top_k, whether use_cache was set or not and whatever the
\* cache held; and a search with use_cache = False leaves the cache as it
\* was, does not take its embedding from it and computes one embedding.
C26_CacheIsTransparent ==
    /\ \A q \in DOMAIN query_cache : query_cache[q] = Embed(q)
    /\ (\E q \in DOMAIN before.query_cache : q \notin DOMAIN query_cache)
          => LastWas("clear_cache")
    /\ (LastWas("search") /\ ~ret.raised) =>
          ret.results =
             FormatResults(Query(collection, Embed(LastCall.query), ret.top_k))
    /\ (LastWas("search") /\ ~LastCall.flag) =>
          /\ query_cache = before.query_cache
          /\ ~LastCall.hit
          /\ LastCall.embeds = 1

\* C26 witness: with both queries in the cache, a search with use_cache
\* was answered from the cache, and the same query was then searched with
\* use_cache = False and returned results.
C26_Witness ==
    /\ LastTwoWere("search", "search")
    /\ CallBefore.flag /\ CallBefore.hit /\ ~CallBefore.raised
    /\ ~LastCall.flag /\ ~ret.raised
    /\ LastCall.query = CallBefore.query
    /\ DOMAIN query_cache = Queries
    /\ Len(ret.results) = top_k_results
    /\ ret.results[1].distance < ret.results[2].distance

=============================================================================
